---------------------------- MODULE Spec2Model ----------------------------
(***************************************************************************)
(* Model of python_expression_fields_parser.py: a PLY (lex + LALR yacc)    *)
(* parser for search queries.  Text is modelled as a sequence of           *)
(* one-character strings; the tokenizer works on characters, the parser    *)
(* is the table-driven shift/reduce loop of yacc.parse() with the tables   *)
(* that yacc.yacc() derives from the grammar and the precedence            *)
(* declaration of the source.                                              *)
(***************************************************************************)
EXTENDS Naturals, Integers, Sequences, FiniteSets, TLC

(***************************************************************************)
(* Text helpers                                                            *)
(***************************************************************************)

RECURSIVE Concat(_)
\* ''.join(parts)
Concat(parts) ==
  IF parts = << >> THEN << >> ELSE Head(parts) \o Concat(Tail(parts))

\* s[i:] with a 1-based i
Drop(s, i) == SubSeq(s, i, Len(s))

\* s.startswith(pre, at i)
StartsWithAt(s, i, pre) ==
  /\ i + Len(pre) - 1 <= Len(s)
  /\ SubSeq(s, i, i + Len(pre) - 1) = pre

RECURSIVE Replace(_, _, _)
\* Python str.replace(old, new): leftmost, non-overlapping occurrences
Replace(s, old, new) ==
  IF Len(s) < Len(old) THEN s
  ELSE IF StartsWithAt(s, 1, old)
       THEN new \o Replace(Drop(s, Len(old) + 1), old, new)
       ELSE <<s[1]>> \o Replace(Tail(s), old, new)

UpperCase ==
  <<"A","B","C","D","E","F","G","H","I","J","K","L","M",
    "N","O","P","Q","R","S","T","U","V","W","X","Y","Z">>
LowerCase ==
  <<"a","b","c","d","e","f","g","h","i","j","k","l","m",
    "n","o","p","q","r","s","t","u","v","w","x","y","z">>

LowerChar(c) ==
  IF \E i \in 1..26 : UpperCase[i] = c
  THEN LowerCase[CHOOSE i \in 1..26 : UpperCase[i] = c]
  ELSE c

\* str.lower()
Lower(s) == [i \in 1..Len(s) |-> LowerChar(s[i])]

\* ' ' in s
HasSpace(s) == \E i \in 1..Len(s) : s[i] = " "

QUOTE == "\""
BACKSLASH == "\\"
TXT_AND == <<"A","N","D">>
TXT_OR == <<"O","R">>

(***************************************************************************)
(* Lexer rules (source lines 33-71)                                        *)
(***************************************************************************)

\* tokens = (...)
tokens ==
  {"QUOTED_STRING", "UNQUOTED_STRING", "LPAREN", "RPAREN", "AND", "OR", "COLON"}

\* a variant that ignores blanks and line ends only
t_ignore_no_tab == {" ", "\n", "\r"}

\* t_ignore = ' \t\n\r'
t_ignore == {" ", "\t", "\n", "\r"}

\* the regex class \s: the ignored characters and further white space
\* (form feed stands for the members of \s that t_ignore does not list)
ReSpace == {" ", "\t", "\n", "\r", "\f"}

\* the class [\s()] of the lookahead of t_AND and t_OR
KeywordFollow == ReSpace \cup {"(", ")"}

\* the excluded class of [^\s"():]
RunStop == ReSpace \cup {QUOTE, "(", ")", ":"}

RECURSIVE SkipIgnore(_, _)
\* lex.token() skips the characters of t_ignore
SkipIgnore(data, pos) ==
  IF pos <= Len(data) /\ data[pos] \in t_ignore
  THEN SkipIgnore(data, pos + 1) ELSE pos

RECURSIVE QuotedBodyEnd(_, _)
\* ([^"\\]|\\.)*" from pos on: the position of the closing quote, 0 if none.
\* '.' does not match a newline.
QuotedBodyEnd(data, pos) ==
  IF pos > Len(data) THEN 0
  ELSE IF data[pos] = QUOTE THEN pos
  ELSE IF data[pos] = BACKSLASH
       THEN IF pos + 1 <= Len(data) /\ data[pos + 1] # "\n"
            THEN QuotedBodyEnd(data, pos + 2) ELSE 0
       ELSE QuotedBodyEnd(data, pos + 1)

\* r'"([^"\\]|\\.)*"' at pos: last position of the match, 0 if no match
QuotedEnd(data, pos) ==
  IF pos <= Len(data) /\ data[pos] = QUOTE
  THEN QuotedBodyEnd(data, pos + 1) ELSE 0

\* r'AND(?=[\s()])' / r'OR(?=[\s()])' at pos
KeywordEnd(data, pos, kw) ==
  IF /\ StartsWithAt(data, pos, kw)
     /\ pos + Len(kw) <= Len(data)
     /\ data[pos + Len(kw)] \in KeywordFollow
  THEN pos + Len(kw) - 1 ELSE 0

RECURSIVE RunEnd(_, _)
\* r'[^\s"():]+' at pos: last position of the maximal run, pos-1 if empty
RunEnd(data, pos) ==
  IF pos <= Len(data) /\ data[pos] \notin RunStop
  THEN RunEnd(data, pos + 1) ELSE pos - 1

\* The master regular expression of lex.lex(): the function rules in the
\* order of their definition, then the string rules; the first alternative
\* that matches at pos wins.  The rule and the last position of its match.
Match(data, pos) ==
  IF pos > Len(data) THEN [rule |-> "eof", last |-> pos - 1]
  ELSE IF QuotedEnd(data, pos) # 0
  THEN [rule |-> "t_QUOTED_STRING", last |-> QuotedEnd(data, pos)]
  ELSE IF KeywordEnd(data, pos, TXT_AND) # 0
  THEN [rule |-> "t_AND", last |-> pos + 2]
  ELSE IF KeywordEnd(data, pos, TXT_OR) # 0
  THEN [rule |-> "t_OR", last |-> pos + 1]
  ELSE IF RunEnd(data, pos) >= pos
  THEN [rule |-> "t_UNQUOTED_STRING", last |-> RunEnd(data, pos)]
  ELSE IF data[pos] = "(" THEN [rule |-> "t_LPAREN", last |-> pos]
  ELSE IF data[pos] = ")" THEN [rule |-> "t_RPAREN", last |-> pos]
  ELSE IF data[pos] = ":" THEN [rule |-> "t_COLON", last |-> pos]
  ELSE [rule |-> "t_error", last |-> pos]

\* a LexToken: its type, its value and the position it starts at
Tok(type, value, lexpos) == [type |-> type, value |-> value, lexpos |-> lexpos]

\* a variant that unescapes the quote only: t.value[1:-1].replace(r'\"', '"')
UnescapeQuoted_quote_only(text) ==
  Replace(SubSeq(text, 2, Len(text) - 1), <<BACKSLASH, QUOTE>>, <<QUOTE>>)

\* t.value[1:-1].replace(r'\"', '"').replace(r'\\', '\\')
UnescapeQuoted(text) ==
  Replace(Replace(SubSeq(text, 2, Len(text) - 1),
                  <<BACKSLASH, QUOTE>>, <<QUOTE>>),
          <<BACKSLASH, BACKSLASH>>, <<BACKSLASH>>)

t_QUOTED_STRING(t) == [t EXCEPT !.value = UnescapeQuoted(t.value)]

t_AND(t) == t

t_OR(t) == t

\* if t.value in ('AND', 'OR'): t.type = t.value
\* a variant without the reclassification of AND and OR
t_UNQUOTED_STRING_plain(t) == t

t_UNQUOTED_STRING(t) ==
  IF t.value = TXT_AND THEN [t EXCEPT !.type = "AND"]
  ELSE IF t.value = TXT_OR THEN [t EXCEPT !.type = "OR"]
  ELSE t

(***************************************************************************)
(* AST (source lines 6-30).  A node is a record with a "type" field.       *)
(***************************************************************************)

None == [type |-> "None"]
Term(value) == [type |-> "Term", value |-> value]
And(left, right) == [type |-> "And", left |-> left, right |-> right]
Or(left, right) == [type |-> "Or", left |-> left, right |-> right]
Field(key, value) == [type |-> "Field", key |-> key, value |-> value]
SearchQuery(expression) == [type |-> "SearchQuery", expression |-> expression]

(***************************************************************************)
(* Grammar (source lines 73-144): the productions in the order of the      *)
(* p_ functions, preceded by the start production that yacc adds.          *)
(***************************************************************************)

Rule(name, prod, func) == [name |-> name, prod |-> prod, func |-> func]

\* a variant whose parenthesized group holds a primary, not an expression
Productions_primary_group ==
  << Rule("S'", <<"search_query">>, "accept"),
     Rule("search_query", <<"expression">>, "p_search_query"),
     Rule("search_query", <<"empty">>, "p_search_query"),
     Rule("empty", << >>, "p_empty"),
     Rule("expression", <<"primary">>, "p_expression"),
     Rule("expression", <<"expression", "AND", "expression">>, "p_expression"),
     Rule("expression", <<"expression", "OR", "expression">>, "p_expression"),
     Rule("primary", <<"term">>, "p_primary"),
     Rule("primary", <<"field_value">>, "p_primary"),
     Rule("primary", <<"LPAREN", "primary", "RPAREN">>, "p_primary"),
     Rule("primary", <<"primary", "primary">>, "p_primary"),
     Rule("term", <<"QUOTED_STRING">>, "p_term"),
     Rule("term", <<"UNQUOTED_STRING">>, "p_term"),
     Rule("field_value", <<"field_name", "COLON", "field_content">>, "p_field_value"),
     Rule("field_name", <<"UNQUOTED_STRING">>, "p_field_name"),
     Rule("field_content", <<"QUOTED_STRING">>, "p_field_content"),
     Rule("field_content", <<"UNQUOTED_STRING">>, "p_field_content") >>

\* a variant whose juxtaposition joins two expressions, not two primaries
Productions_expression_juxt ==
  << Rule("S'", <<"search_query">>, "accept"),
     Rule("search_query", <<"expression">>, "p_search_query"),
     Rule("search_query", <<"empty">>, "p_search_query"),
     Rule("empty", << >>, "p_empty"),
     Rule("expression", <<"primary">>, "p_expression"),
     Rule("expression", <<"expression", "AND", "expression">>, "p_expression"),
     Rule("expression", <<"expression", "OR", "expression">>, "p_expression"),
     Rule("primary", <<"term">>, "p_primary"),
     Rule("primary", <<"field_value">>, "p_primary"),
     Rule("primary", <<"LPAREN", "expression", "RPAREN">>, "p_primary"),
     Rule("expression", <<"expression", "expression">>, "p_primary"),
     Rule("term", <<"QUOTED_STRING">>, "p_term"),
     Rule("term", <<"UNQUOTED_STRING">>, "p_term"),
     Rule("field_value", <<"field_name", "COLON", "field_content">>, "p_field_value"),
     Rule("field_name", <<"UNQUOTED_STRING">>, "p_field_name"),
     Rule("field_content", <<"QUOTED_STRING">>, "p_field_content"),
     Rule("field_content", <<"UNQUOTED_STRING">>, "p_field_content") >>

Productions ==
  << Rule("S'", <<"search_query">>, "accept"),
     Rule("search_query", <<"expression">>, "p_search_query"),
     Rule("search_query", <<"empty">>, "p_search_query"),
     Rule("empty", << >>, "p_empty"),
     Rule("expression", <<"primary">>, "p_expression"),
     Rule("expression", <<"expression", "AND", "expression">>, "p_expression"),
     Rule("expression", <<"expression", "OR", "expression">>, "p_expression"),
     Rule("primary", <<"term">>, "p_primary"),
     Rule("primary", <<"field_value">>, "p_primary"),
     Rule("primary", <<"LPAREN", "expression", "RPAREN">>, "p_primary"),
     Rule("primary", <<"primary", "primary">>, "p_primary"),
     Rule("term", <<"QUOTED_STRING">>, "p_term"),
     Rule("term", <<"UNQUOTED_STRING">>, "p_term"),
     Rule("field_value", <<"field_name", "COLON", "field_content">>, "p_field_value"),
     Rule("field_name", <<"UNQUOTED_STRING">>, "p_field_name"),
     Rule("field_content", <<"QUOTED_STRING">>, "p_field_content"),
     Rule("field_content", <<"UNQUOTED_STRING">>, "p_field_content") >>

\* a variant with the two levels in the other order
precedence_swapped ==
  << [assoc |-> "right", toks |-> {"AND"}],
     [assoc |-> "right", toks |-> {"OR"}] >>

\* a variant with left associativity
precedence_left ==
  << [assoc |-> "left", toks |-> {"OR"}],
     [assoc |-> "left", toks |-> {"AND"}] >>

\* precedence = (('right', 'OR'), ('right', 'AND')): lowest level first
precedence ==
  << [assoc |-> "right", toks |-> {"OR"}],
     [assoc |-> "right", toks |-> {"AND"}] >>

ProdIds == DOMAIN Productions
Terminals == tokens \cup {"$end"}
Nonterminals == {Productions[i].name : i \in ProdIds}
Symbols == Terminals \cup Nonterminals

\* precedence of a terminal; ('right', 0) when it has none
TokPrec(a) ==
  IF \E l \in DOMAIN precedence : a \in precedence[l].toks
  THEN LET l == CHOOSE l \in DOMAIN precedence : a \in precedence[l].toks
       IN  [assoc |-> precedence[l].assoc, level |-> l]
  ELSE [assoc |-> "right", level |-> 0]

\* precedence of a production: that of its rightmost terminal
ProdPrec(i) ==
  LET rhs == Productions[i].prod
      ts == {k \in DOMAIN rhs : rhs[k] \in Terminals}
  IN  IF ts = {} THEN [assoc |-> "right", level |-> 0]
      ELSE TokPrec(rhs[CHOOSE k \in ts : \A j \in ts : j <= k])

(***************************************************************************)
(* yacc.yacc() (source line 178): the LALR(1) tables of the grammar        *)
(***************************************************************************)

\* A fixpoint below binds each round's value with  v \in {round} , so that
\* the round is evaluated once.

\* one round: the nonterminals with a production whose symbols are all in S
NullableStep(S) ==
  S \cup {Productions[i].name : i \in
           {j \in ProdIds : \A k \in DOMAIN Productions[j].prod :
                              Productions[j].prod[k] \in S}}

RECURSIVE NullableFix(_)
NullableFix(S) ==
  UNION {IF S2 = S THEN S ELSE NullableFix(S2) : S2 \in {NullableStep(S)}}

Nullable == NullableFix({})

RECURSIVE FirstOfSeq(_, _)
\* the terminals that can begin a string derived from seq, given FIRST f
FirstOfSeq(f, seq) ==
  IF seq = << >> THEN {}
  ELSE f[Head(seq)] \cup
       (IF Head(seq) \in Nullable THEN FirstOfSeq(f, Tail(seq)) ELSE {})

FirstStep(f) ==
  [X \in Symbols |->
     IF X \in Terminals THEN {X}
     ELSE UNION {FirstOfSeq(f, Productions[i].prod) :
                   i \in {j \in ProdIds : Productions[j].name = X}}]

RECURSIVE FirstFix(_)
FirstFix(f) ==
  CHOOSE r \in {IF g = f THEN f ELSE FirstFix(g) : g \in {FirstStep(f)}} : TRUE

First == FirstFix([X \in Symbols |-> IF X \in Terminals THEN {X} ELSE {}])

SeqNullable(seq) == \A k \in DOMAIN seq : seq[k] \in Nullable

\* an LR(0) item: production p with the dot before position d+1
Item(p, d) == [p |-> p, d |-> d]
AtEnd(it) == it.d = Len(Productions[it.p].prod)
DotSym(it) == IF AtEnd(it) THEN "" ELSE Productions[it.p].prod[it.d + 1]
AfterDotSym(it) ==
  SubSeq(Productions[it.p].prod, it.d + 2, Len(Productions[it.p].prod))

ClosureStep(I) ==
  I \cup {Item(j, 0) : j \in
           {j \in ProdIds : \E it \in I : DotSym(it) = Productions[j].name}}

RECURSIVE Closure0(_)
Closure0(I) ==
  UNION {IF J = I THEN I ELSE Closure0(J) : J \in {ClosureStep(I)}}

Goto0(I, X) ==
  Closure0({Item(it.p, it.d + 1) : it \in {i \in I : DotSym(i) = X}})

StartItems == Closure0({Item(1, 0)})

StatesStep(S) == S \cup ({Goto0(I, X) : I \in S, X \in Symbols} \ {{}})

RECURSIVE StatesFix(_)
StatesFix(S) ==
  UNION {IF S2 = S THEN S ELSE StatesFix(S2) : S2 \in {StatesStep(S)}}

RECURSIVE SetToSeq(_)
SetToSeq(S) ==
  IF S = {} THEN << >>
  ELSE CHOOSE r \in {<<x>> \o SetToSeq(R) :
                       x \in {CHOOSE y \in S : TRUE},
                       R \in {S \ {CHOOSE y \in S : TRUE}}} : TRUE

\* the LR(0) item sets, numbered
StateSeq == SetToSeq(StatesFix({StartItems}))

\* the number of item set I in the numbering seq, 0 if it has none
StateNo(seq, I) ==
  IF \E s \in DOMAIN seq : seq[s] = I
  THEN CHOOSE s \in DOMAIN seq : seq[s] = I
  ELSE 0

\* transitions: the state reached from s over X, 0 if none
Trans(seq) ==
  [s \in DOMAIN seq |-> [X \in Symbols |-> StateNo(seq, Goto0(seq[s], X))]]

\* the items B -> .gamma that item it, with the dot before the nonterminal
\* B and lookahead a, gives its state, each with its lookaheads: FIRST(beta),
\* and a when beta can be empty
Spontaneous(s, it, a, B, beta) ==
  {<<s, Item(j, 0), b>> :
     j \in {j \in ProdIds : Productions[j].name = B},
     b \in FirstOfSeq(First, beta) \cup
           (IF SeqNullable(beta) THEN {a} ELSE {})}

\* One round of LALR(1) lookahead propagation.  L is a set of triples
\* <<state, item, terminal>>: the terminal is a lookahead of the item in
\* the state.  A lookahead follows its item over a transition, and an item
\* with the dot before a nonterminal gives the items of that nonterminal in
\* its state their lookaheads.
LookaheadStep(L, trans, start) ==
  {<<start, Item(1, 0), "$end">>}
  \cup {<<trans[t[1]][DotSym(t[2])], Item(t[2].p, t[2].d + 1), t[3]>> :
          t \in {u \in L : ~AtEnd(u[2])}}
  \cup UNION {Spontaneous(t[1], t[2], t[3], DotSym(t[2]), AfterDotSym(t[2])) :
                t \in L}

RECURSIVE LookaheadFix(_, _, _)
LookaheadFix(L, trans, start) ==
  UNION {IF L2 = L THEN L ELSE LookaheadFix(L2, trans, start) :
           L2 \in {L \cup LookaheadStep(L, trans, start)}}

\* table entries
ShiftTo(s) == [kind |-> "shift", arg |-> s]
ReduceBy(p) == [kind |-> "reduce", arg |-> p]
AcceptInput == [kind |-> "accept", arg |-> 0]
NoAction == [kind |-> "none", arg |-> 0]

\* yacc's resolution of a shift/reduce conflict on terminal a between the
\* shift to state j and the reduction by production p
ResolveShiftReduce(a, j, p) ==
  LET sp == TokPrec(a)
      rp == ProdPrec(p)
  IN  IF \/ sp.level < rp.level
         \/ (sp.level = rp.level /\ rp.assoc = "left")
      THEN ReduceBy(p)
      ELSE IF sp.level = rp.level /\ rp.assoc = "nonassoc"
      THEN NoAction
      ELSE ShiftTo(j)

\* the reductions the state with items I and number s offers on terminal
\* a, given the lookahead triples L
Reductions(I, s, a, L) ==
  {it.p : it \in {i \in I : AtEnd(i) /\ i.p # 1 /\ <<s, i, a>> \in L}}

\* one entry of the action table: accept, a resolved shift/reduce conflict,
\* a reduction (of a reduce/reduce conflict, the production defined first),
\* a shift to state j, or nothing
TableEntry(a, accepts, reds, j) ==
  IF a = "$end" /\ accepts THEN AcceptInput
  ELSE IF reds # {} /\ j # 0
  THEN ResolveShiftReduce(a, j, CHOOSE p \in reds : \A q \in reds : p <= q)
  ELSE IF reds # {} THEN ReduceBy(CHOOSE p \in reds : \A q \in reds : p <= q)
  ELSE IF j # 0 THEN ShiftTo(j)
  ELSE NoAction

\* the action table of the parser
ActionTable(seq, trans, L) ==
  [s \in DOMAIN seq |-> [a \in Terminals |->
     TableEntry(a, Item(1, 1) \in seq[s], Reductions(seq[s], s, a, L),
                trans[s][a])]]

\* the goto table
GotoTable(seq, trans) ==
  [s \in DOMAIN seq |-> [X \in Nonterminals |-> trans[s][X]]]

\* For each state the production of its default reduction, 0 if it has
\* none: a state whose only action is one reduction is "defaulted", and
\* yacc reduces there without reading a lookahead.
DefaultedStates(action) ==
  [s \in DOMAIN action |->
     IF /\ Cardinality({a \in Terminals : action[s][a].kind # "none"}) = 1
        /\ \A a \in Terminals : action[s][a].kind \in {"none", "reduce"}
     THEN action[s][CHOOSE a \in Terminals : action[s][a].kind # "none"].arg
     ELSE 0]

\* the parser object: its tables and the state a parse starts in (state 0
\* of yacc)
LRParser(action, goto, start) ==
  [action |-> action, goto |-> goto,
   defaulted_states |-> DefaultedStates(action), start |-> start]

LRTables(seq, trans, start) ==
  LRParser(ActionTable(seq, trans, LookaheadFix({}, trans, start)),
           GotoTable(seq, trans), start)

LALR(seq) == LRTables(seq, Trans(seq), StateNo(seq, StartItems))

\* parser = yacc.yacc()
yacc == LALR(StateSeq)

(***************************************************************************)
(* Grammar rule functions (source lines 79-150).  p is the sequence        *)
(* p[1..n] of the values of the right-hand side; len(p) is n + 1.          *)
(***************************************************************************)

p_search_query(p) == SearchQuery(p[1])

p_empty(p) == None

p_expression(p) ==
  IF Len(p) + 1 = 2 THEN p[1]
  ELSE IF p[2] = TXT_AND THEN And(p[1], p[3])
  ELSE Or(p[1], p[3])

\* a variant that builds the implicit And with its operands exchanged
p_primary_exchanged(p) ==
  IF Len(p) + 1 = 2 THEN p[1]
  ELSE IF Len(p) + 1 = 3 THEN And(p[2], p[1])
  ELSE p[2]

\* a variant without the last branch: p[0] of a group stays unset
p_primary_group_unset(p) ==
  IF Len(p) + 1 = 2 THEN p[1]
  ELSE IF Len(p) + 1 = 3 THEN And(p[1], p[2])
  ELSE None

p_primary(p) ==
  IF Len(p) + 1 = 2 THEN p[1]
  ELSE IF Len(p) + 1 = 3 THEN And(p[1], p[2])
  ELSE p[2]

p_term(p) == Term(p[1])

\* a variant that keeps the case of the key
p_field_value_keep_case(p) == Field(p[1], p[3])

p_field_value(p) == Field(Lower(p[1]), p[3])

p_field_name(p) == p[1]

p_field_content(p) == p[1]

\* p.callable(pslice) for the production of rule function func
CallRule(func, p) ==
  CASE func = "p_search_query" -> p_search_query(p)
    [] func = "p_empty" -> p_empty(p)
    [] func = "p_expression" -> p_expression(p)
    [] func = "p_primary" -> p_primary(p)
    [] func = "p_term" -> p_term(p)
    [] func = "p_field_value" -> p_field_value(p)
    [] func = "p_field_name" -> p_field_name(p)
    [] func = "p_field_content" -> p_field_content(p)

(***************************************************************************)
(* One call of parse_search_query (source lines 166-179): a fresh lexer    *)
(* and parser, then parser.parse(query, lexer=lexer).  The call is a       *)
(* record m of the lexer's fields (lexdata, lexpos), the locals of the     *)
(* parse loop (lookahead, lookaheadstack, statestack, symstack,            *)
(* errorcount), what has been printed, and how the call ended.             *)
(***************************************************************************)

NoTok == Tok("", << >>, 0)
EndTok == Tok("$end", << >>, 0)
ErrorCount == 3

Sym(type, value) == [type |-> type, value |-> value]

NewCall(parser, query) ==
  [ lexdata |-> query,
    lexpos |-> 1,
    lookahead |-> NoTok,
    lookaheadstack |-> << >>,
    statestack |-> <<parser.start>>,
    symstack |-> <<Sym("$end", None)>>,
    errorcount |-> 0,
    printed |-> << >>,
    status |-> "running",
    result |-> None ]

Top(stack) == stack[Len(stack)]
Pop(stack, n) == SubSeq(stack, 1, Len(stack) - n)

\* the parse loop fetches a token when it has no lookahead, except in a
\* defaulted state
NeedsToken(parser, m) ==
  /\ parser.defaulted_states[Top(m.statestack)] = 0
  /\ m.lookahead = NoTok

\* where the next token comes from: the pushback stack, or the lexer rule
\* that matches at the scan position
TokenSource(m) ==
  IF m.lookaheadstack # << >> THEN "pushback"
  ELSE Match(m.lexdata, SkipIgnore(m.lexdata, m.lexpos)).rule

\* the token lex.token() returns for the text a rule matched: the rule's
\* function is called on the new token; a string rule has no function
RuleToken(rule, text, pos) ==
  CASE rule = "t_QUOTED_STRING" -> t_QUOTED_STRING(Tok("QUOTED_STRING", text, pos))
    [] rule = "t_AND" -> t_AND(Tok("AND", text, pos))
    [] rule = "t_OR" -> t_OR(Tok("OR", text, pos))
    [] rule = "t_UNQUOTED_STRING" ->
         t_UNQUOTED_STRING(Tok("UNQUOTED_STRING", text, pos))
    [] rule = "t_LPAREN" -> Tok("LPAREN", text, pos)
    [] rule = "t_RPAREN" -> Tok("RPAREN", text, pos)
    [] rule = "t_COLON" -> Tok("COLON", text, pos)

\* the scan from position pos (the ignored characters skipped) with the
\* match mt: '$end' at the end of the input; t_error prints and does not
\* skip, so lex raises LexError; otherwise the token of the rule
Scan(m, pos, mt) ==
  IF mt.rule = "eof"
  THEN [m EXCEPT !.lexpos = pos, !.lookahead = EndTok]
  ELSE IF mt.rule = "t_error"
  THEN [m EXCEPT !.lexpos = pos,
                 !.printed = Append(@, Tok("illegal", <<m.lexdata[pos]>>, pos)),
                 !.status = "raised",
                 !.result = [type |-> "LexError"]]
  ELSE [m EXCEPT !.lexpos = mt.last + 1,
                 !.lookahead =
                    RuleToken(mt.rule, SubSeq(m.lexdata, pos, mt.last), pos)]

\* lookahead = lookaheadstack.pop() if lookaheadstack else get_token()
GetToken(m) ==
  IF m.lookaheadstack # << >>
  THEN [m EXCEPT !.lookahead = Top(m.lookaheadstack),
                 !.lookaheadstack = Pop(m.lookaheadstack, 1)]
  ELSE CHOOSE r \in
         {Scan(m, pos, Match(m.lexdata, pos)) :
            pos \in {SkipIgnore(m.lexdata, m.lexpos)}} : TRUE

\* t = actions[state].get(ltype), or the reduction of a defaulted state
TableAction(parser, m) ==
  IF parser.defaulted_states[Top(m.statestack)] # 0
  THEN ReduceBy(parser.defaulted_states[Top(m.statestack)])
  ELSE IF m.lookahead.type \in DOMAIN parser.action[Top(m.statestack)]
  THEN parser.action[Top(m.statestack)][m.lookahead.type]
  ELSE NoAction

\* t > 0: shift the lookahead and go to state t
DoShift(m, t) ==
  [m EXCEPT !.statestack = Append(@, t.arg),
            !.symstack = Append(@, Sym(m.lookahead.type, m.lookahead.value)),
            !.lookahead = NoTok,
            !.errorcount = IF @ > 0 THEN @ - 1 ELSE 0]

\* t < 0: reduce by production i = -t, which is prod: the n symbols of its
\* right-hand side are replaced by the value its rule function leaves in
\* p[0], and the state becomes goto[statestack[-1]][pname]
DoReduce(parser, m, i, prod) ==
  [m EXCEPT
     !.symstack =
        Append(Pop(@, Len(prod.prod)),
               Sym(prod.name,
                   CallRule(prod.func, [k \in 1..Len(prod.prod) |->
                      @[Len(@) - Len(prod.prod) + k].value]))),
     !.statestack =
        Append(Pop(@, Len(prod.prod)),
               parser.goto[@[Len(@) - Len(prod.prod)]][prod.name])]

\* t == 0: return symstack[-1].value
DoAccept(m) ==
  [m EXCEPT !.status = "returned", !.result = Top(m.symstack).value]

\* a variant that leaves the offending token in place when only the start
\* state is left
Recover_keep_token(m) ==
  IF Len(m.statestack) <= 1 /\ m.lookahead.type # "$end"
  THEN [m EXCEPT !.lookaheadstack = << >>]
  ELSE IF m.lookahead.type = "$end"
  THEN [m EXCEPT !.status = "returned", !.result = None]
  ELSE IF m.lookahead.type # "error"
  THEN IF Top(m.symstack).type = "error"
       THEN [m EXCEPT !.lookahead = NoTok]
       ELSE [m EXCEPT !.lookaheadstack = Append(@, m.lookahead),
                      !.lookahead =
                        Tok("error", m.lookahead.value, m.lookahead.lexpos)]
  ELSE [m EXCEPT !.symstack = Pop(@, 1), !.statestack = Pop(@, 1)]

\* The rest of an error iteration, after errorcount has been set: with only
\* the start state left the offending token is dropped; at the end of the
\* input parse() returns None; otherwise an 'error' token becomes the
\* lookahead and the stacks are popped, one entry per iteration.
Recover(m) ==
  IF Len(m.statestack) <= 1 /\ m.lookahead.type # "$end"
  THEN [m EXCEPT !.lookahead = NoTok, !.lookaheadstack = << >>]
  ELSE IF m.lookahead.type = "$end"
  THEN [m EXCEPT !.status = "returned", !.result = None]
  ELSE IF m.lookahead.type # "error"
  THEN IF Top(m.symstack).type = "error"
       THEN [m EXCEPT !.lookahead = NoTok]
       ELSE [m EXCEPT !.lookaheadstack = Append(@, m.lookahead),
                      !.lookahead =
                        Tok("error", m.lookahead.value, m.lookahead.lexpos)]
  ELSE [m EXCEPT !.symstack = Pop(@, 1), !.statestack = Pop(@, 1)]

\* t is None: if errorcount == 0, p_error(errtoken) is called, prints and
\* returns; errorcount = error_count; then the recovery goes on
p_error(m) ==
  Recover([m EXCEPT !.errorcount = ErrorCount,
                    !.printed = IF m.errorcount = 0
                                THEN Append(@, m.lookahead) ELSE @])

\* one iteration of the parse loop with table action t: the kind of the
\* step and the call after it
StepWith(parser, m, t) ==
  IF t.kind = "shift" THEN [kind |-> "shift", next |-> DoShift(m, t)]
  ELSE IF t.kind = "reduce"
  THEN [kind |-> Productions[t.arg].func,
        next |-> DoReduce(parser, m, t.arg, Productions[t.arg])]
  ELSE IF t.kind = "accept" THEN [kind |-> "accept", next |-> DoAccept(m)]
  ELSE [kind |-> IF m.errorcount = 0 THEN "p_error" ELSE "recover",
        next |-> p_error(m)]

\* one iteration of the parse loop
StepOf(parser, m) ==
  IF NeedsToken(parser, m)
  THEN [kind |-> TokenSource(m), next |-> GetToken(m)]
  ELSE StepWith(parser, m, TableAction(parser, m))

RECURSIVE Run(_, _)
\* the parse loop, run until the call returns or raises
Run(parser, m) ==
  IF m.status # "running" THEN m
  ELSE CHOOSE r \in {Run(parser, n) : n \in {StepOf(parser, m).next}} : TRUE

\* parser.parse(query, lexer=lexer)
parse(parser, query) == Run(parser, NewCall(parser, query))

\* parse_search_query(query): how the call ended and what it returned
parse_search_query(query) == parse(yacc, query)

RECURSIVE stringify_bare(_)
\* a variant that prints And and Or without the parentheses
stringify_bare(expr) ==
  IF expr.type = "Term"
  THEN IF HasSpace(expr.value)
       THEN <<QUOTE>> \o expr.value \o <<QUOTE>> ELSE expr.value
  ELSE IF expr.type = "And"
  THEN stringify_bare(expr.left) \o <<" ">> \o TXT_AND \o <<" ">>
       \o stringify_bare(expr.right)
  ELSE IF expr.type = "Or"
  THEN stringify_bare(expr.left) \o <<" ">> \o TXT_OR \o <<" ">>
       \o stringify_bare(expr.right)
  ELSE (IF expr.type = "Field"
        THEN expr.key \o <<":">> \o
             (IF HasSpace(expr.value)
              THEN <<QUOTE>> \o expr.value \o <<QUOTE>> ELSE expr.value)
        ELSE <<"ValueError">>)

RECURSIVE stringify(_)
\* stringify(expr)
stringify(expr) ==
  IF expr.type = "Term"
  THEN IF HasSpace(expr.value)
       THEN <<QUOTE>> \o expr.value \o <<QUOTE>> ELSE expr.value
  ELSE IF expr.type = "And"
  THEN <<"(">> \o stringify(expr.left) \o <<" ">> \o TXT_AND \o <<" ">>
       \o stringify(expr.right) \o <<")">>
  ELSE IF expr.type = "Or"
  THEN <<"(">> \o stringify(expr.left) \o <<" ">> \o TXT_OR \o <<" ">>
       \o stringify(expr.right) \o <<")">>
  ELSE (IF expr.type = "Field"
        THEN expr.key \o <<":">> \o
             (IF HasSpace(expr.value)
              THEN <<QUOTE>> \o expr.value \o <<QUOTE>> ELSE expr.value)
        ELSE <<"ValueError">>)

(***************************************************************************)
(* The queries the model parses.  Seven families:                          *)
(*  - lexeme strings: every string of at most MaxPieces lexemes (a word,   *)
(*    AND, OR, the punctuation, a quoted phrase), written either with      *)
(*    single spaces between them or with nothing between them;             *)
(*  - operator chains: operands joined by AND, OR or juxtaposition, each   *)
(*    operand a term or a field, optionally with one parenthesized group   *)
(*    nested up to MaxDepth deep;                                          *)
(*  - quoted strings over a small alphabet, bare and as a field value;     *)
(*  - keyword-like runs in several contexts;                               *)
(*  - queries of main()'s test list that do not match the grammar;         *)
(*  - a field, and pairs of lexemes, spelled with every gap;               *)
(*  - queries with a character the lexer has no rule for;                  *)
(* and the blank inputs.                                                   *)
(***************************************************************************)

MaxPieces == 3
MaxOps == 3
MaxDepth == 2
MaxBody == 4
MaxRun == 3

SeqsUpTo(S, n) == UNION {[1..k -> S] : k \in 0..n}

RECURSIVE JoinWith(_, _)
\* sep.join(parts)
JoinWith(sep, parts) ==
  IF parts = << >> THEN << >>
  ELSE IF Len(parts) = 1 THEN parts[1]
  ELSE parts[1] \o sep \o JoinWith(sep, Tail(parts))

PieceKinds == {"word", "AND", "OR", "(", ")", ":", "quoted"}

\* the text of the lexeme at position i; words are named after their place
PieceText(kind, i) ==
  CASE kind = "word" -> <<LowerCase[i]>>
    [] kind = "AND" -> TXT_AND
    [] kind = "OR" -> TXT_OR
    [] kind = "quoted" -> <<QUOTE, LowerCase[i], " ", "z", QUOTE>>
    [] OTHER -> <<kind>>

LexemeQueries ==
  {JoinWith(sep, [i \in DOMAIN ks |-> PieceText(ks[i], i)]) :
     sep \in {<< >>, <<" ">>}, ks \in SeqsUpTo(PieceKinds, MaxPieces)}

OperandKinds == {"term", "field"}
Operators == {"AND", "OR", "juxt"}

OperandText(kind, i) ==
  IF kind = "term" THEN <<LowerCase[i]>>
  ELSE <<UpperCase[i], "k", ":", "V", LowerCase[i]>>

OperatorText(op) ==
  CASE op = "AND" -> <<" ">> \o TXT_AND \o <<" ">>
    [] op = "OR" -> <<" ">> \o TXT_OR \o <<" ">>
    [] op = "juxt" -> <<" ">>

RECURSIVE Parens(_, _)
Parens(c, n) == IF n = 0 THEN << >> ELSE <<c>> \o Parens(c, n - 1)

\* operands 1..n of the given kinds joined by ops, with the operands
\* from..to inside depth pairs of parentheses (depth 0: no group)
ChainText(kinds, ops, from, to, depth) ==
  Concat([i \in 1..Len(kinds) |->
     (IF i > 1 THEN OperatorText(ops[i - 1]) ELSE << >>)
     \o (IF i = from THEN Parens("(", depth) ELSE << >>)
     \o OperandText(kinds[i], i)
     \o (IF i = to THEN Parens(")", depth) ELSE << >>)])

ChainQueries ==
  UNION {
    {ChainText(kinds, ops, 1, n, 0) :
       kinds \in [1..n -> OperandKinds], ops \in [1..(n - 1) -> Operators]}
    \cup
    {ChainText([i \in 1..n |-> "term"], ops, g[1], g[2], d) :
       ops \in [1..(n - 1) -> Operators],
       g \in {h \in (1..n) \X (1..n) : h[1] <= h[2]},
       d \in 1..MaxDepth} :
    n \in 1..(MaxOps + 1)}

BodyChars == {"a", " ", ":", QUOTE, BACKSLASH}

QuotedQueries ==
  {pre \o <<QUOTE>> \o body \o <<QUOTE>> :
     pre \in {<< >>, <<"k", ":">>}, body \in SeqsUpTo(BodyChars, MaxBody)}

RunChars == {"A", "N", "D", "O", "R"}

KeywordRuns ==
  (SeqsUpTo(RunChars, MaxRun) \ {<< >>})
  \cup {<<"a","n","d">>, <<"o","r">>, <<"A","N","D","R","O","I","D">>,
        <<"x","A","N","D">>}

KeywordQueries ==
  {pre \o run \o post :
     pre \in {<< >>, <<"a", " ">>, <<QUOTE, "q", QUOTE>>},
     run \in KeywordRuns,
     post \in {<< >>, <<" ", "b">>, <<"(", "b", ")">>, <<")">>, <<":", "v">>,
               <<QUOTE, "q", QUOTE>>, <<"\f", "b">>, <<"\n", "b">>}}

\* '()', 'field:', ':value' of main()'s test list, and a field whose value
\* is a group
ErrorQueries ==
  {<<"(", ")">>,
   <<"f", "i", "e", "l", "d", ":">>,
   <<":", "v", "a", "l", "u", "e">>,
   <<"k", "e", "y", ":", "(", "a", " ", "O", "R", " ", "b", ")">>}

BlankQueries == {<< >>, <<" ">>, <<"\t", "\n">>, <<" ", "\r", " ">>}

\* what may stand between two lexemes: nothing, one ignored character, two
Gaps ==
  {<< >>, <<" ">>, <<"\t">>, <<"\n">>, <<"\r">>,
   <<" ", " ">>, <<"\r", "\n">>, <<"\t", " ">>}

FieldValues == {<<"V", "a">>, <<QUOTE, "V", "(", "a", QUOTE>>}

\* 'field: value', 'field :value', 'field : value' of main()'s test list:
\* a key, a colon and a value with any gap on either side of the colon
SpacedFieldQueries ==
  {g0 \o <<"A", "k">> \o g1 \o <<":">> \o g2 \o v \o g3 :
     g0 \in {<< >>, <<" ">>}, g1 \in Gaps, g2 \in Gaps, v \in FieldValues,
     g3 \in {<< >>, <<"\n">>}}

\* two lexemes of any kind with any gap between them
SpacedPairQueries ==
  {PieceText(x, 1) \o g \o PieceText(y, 2) :
     x \in PieceKinds, y \in PieceKinds, g \in Gaps}

\* queries with a character that no rule matches and t_ignore does not
\* list: a quote that opens no quoted string, a form feed, and a backslash
\* before a newline inside quotes
IllegalCharacterQueries ==
  {<<QUOTE, "a">>,
   <<"a", " ", QUOTE, "b", " ", "c">>,
   <<"a", "\f", "b">>,
   <<"a", " ", "\f">>,
   <<QUOTE, BACKSLASH, "\n", QUOTE>>}

Queries ==
  LexemeQueries \cup ChainQueries \cup QuotedQueries \cup KeywordQueries
  \cup ErrorQueries \cup BlankQueries
  \cup SpacedFieldQueries \cup SpacedPairQueries
  \cup IllegalCharacterQueries

(***************************************************************************)
(* State: the fields of the call in progress, and the text main() prints   *)
(* for its result; how the earlier calls of main()'s loop ended; and a     *)
(* call that another thread has in progress.                               *)
(***************************************************************************)

VARIABLES lexdata, lexpos, lookahead, lookaheadstack, statestack, symstack,
          errorcount, printed, status, result, text, earlier, other

vars == <<lexdata, lexpos, lookahead, lookaheadstack, statestack, symstack,
          errorcount, printed, status, result, text, earlier, other>>

\* the call in progress as a record
Cur ==
  [ lexdata |-> lexdata, lexpos |-> lexpos, lookahead |-> lookahead,
    lookaheadstack |-> lookaheadstack, statestack |-> statestack,
    symstack |-> symstack, errorcount |-> errorcount, printed |-> printed,
    status |-> status, result |-> result ]

Becomes(m) ==
  /\ lexdata' = m.lexdata
  /\ lexpos' = m.lexpos
  /\ lookahead' = m.lookahead
  /\ lookaheadstack' = m.lookaheadstack
  /\ statestack' = m.statestack
  /\ symstack' = m.symstack
  /\ errorcount' = m.errorcount
  /\ printed' = m.printed
  /\ status' = m.status
  /\ result' = m.result

\* the call in progress is m
Is(m) ==
  /\ lexdata = m.lexdata
  /\ lexpos = m.lexpos
  /\ lookahead = m.lookahead
  /\ lookaheadstack = m.lookaheadstack
  /\ statestack = m.statestack
  /\ symstack = m.symstack
  /\ errorcount = m.errorcount
  /\ printed = m.printed
  /\ status = m.status
  /\ result = m.result

NoText == <<"<", "n", "o", "n", "e", ">">>

\* no other thread is in parse_search_query
Idle == [status |-> "idle"]

\* main() calls parse_search_query(query) on a query
Init ==
  /\ \E q \in Queries : Is(NewCall(yacc, q))
  /\ text = NoText
  /\ earlier = << >>
  /\ other = Idle

\* the next iteration of the parse loop, if the call is still running
Advance == IF status = "running" THEN {StepOf(yacc, Cur)} ELSE {}

\* lexer: a token of each rule, the end of the input, a lexical error
LexQuotedString ==
  \E r \in Advance :
    r.kind = "t_QUOTED_STRING" /\ Becomes(r.next) /\ UNCHANGED <<text, earlier, other>>

LexAnd ==
  \E r \in Advance :
    r.kind = "t_AND" /\ Becomes(r.next) /\ UNCHANGED <<text, earlier, other>>

LexOr ==
  \E r \in Advance :
    r.kind = "t_OR" /\ Becomes(r.next) /\ UNCHANGED <<text, earlier, other>>

LexUnquotedString ==
  \E r \in Advance :
    r.kind = "t_UNQUOTED_STRING" /\ Becomes(r.next) /\ UNCHANGED <<text, earlier, other>>

LexLparen ==
  \E r \in Advance :
    r.kind = "t_LPAREN" /\ Becomes(r.next) /\ UNCHANGED <<text, earlier, other>>

LexRparen ==
  \E r \in Advance :
    r.kind = "t_RPAREN" /\ Becomes(r.next) /\ UNCHANGED <<text, earlier, other>>

LexColon ==
  \E r \in Advance :
    r.kind = "t_COLON" /\ Becomes(r.next) /\ UNCHANGED <<text, earlier, other>>

LexEnd ==
  \E r \in Advance :
    r.kind = "eof" /\ Becomes(r.next) /\ UNCHANGED <<text, earlier, other>>

LexError ==
  \E r \in Advance :
    r.kind = "t_error" /\ Becomes(r.next) /\ UNCHANGED <<text, earlier, other>>


\* parser: shift, one reduction per rule function, accept, syntax error
ShiftToken ==
  \E r \in Advance :
    r.kind = "shift" /\ Becomes(r.next) /\ UNCHANGED <<text, earlier, other>>

ReduceSearchQuery ==
  \E r \in Advance :
    r.kind = "p_search_query" /\ Becomes(r.next) /\ UNCHANGED <<text, earlier, other>>

ReduceEmpty ==
  \E r \in Advance :
    r.kind = "p_empty" /\ Becomes(r.next) /\ UNCHANGED <<text, earlier, other>>

ReduceExpression ==
  \E r \in Advance :
    r.kind = "p_expression" /\ Becomes(r.next) /\ UNCHANGED <<text, earlier, other>>

ReducePrimary ==
  \E r \in Advance :
    r.kind = "p_primary" /\ Becomes(r.next) /\ UNCHANGED <<text, earlier, other>>

ReduceTerm ==
  \E r \in Advance :
    r.kind = "p_term" /\ Becomes(r.next) /\ UNCHANGED <<text, earlier, other>>

ReduceFieldValue ==
  \E r \in Advance :
    r.kind = "p_field_value" /\ Becomes(r.next) /\ UNCHANGED <<text, earlier, other>>

ReduceFieldName ==
  \E r \in Advance :
    r.kind = "p_field_name" /\ Becomes(r.next) /\ UNCHANGED <<text, earlier, other>>

ReduceFieldContent ==
  \E r \in Advance :
    r.kind = "p_field_content" /\ Becomes(r.next) /\ UNCHANGED <<text, earlier, other>>

AcceptQuery ==
  \E r \in Advance :
    r.kind = "accept" /\ Becomes(r.next) /\ UNCHANGED <<text, earlier, other>>

SyntaxError ==
  \E r \in Advance :
    r.kind = "p_error" /\ Becomes(r.next) /\ UNCHANGED <<text, earlier, other>>

ErrorRecovery ==
  \E r \in Advance :
    r.kind = "recover" /\ Becomes(r.next) /\ UNCHANGED <<text, earlier, other>>


\* main(): if result.expression: print(stringify(result.expression))
Stringify ==
  /\ status = "returned"
  /\ result.type = "SearchQuery"
  /\ result.expression # None
  /\ text = NoText
  /\ text' = stringify(result.expression)
  /\ UNCHANGED <<lexdata, lexpos, lookahead, lookaheadstack, statestack,
                 symstack, errorcount, printed, status, result, earlier, other>>

Next ==
  \/ LexQuotedString \/ LexAnd \/ LexOr \/ LexUnquotedString
  \/ LexLparen \/ LexRparen \/ LexColon \/ LexEnd \/ LexError
  \/ ShiftToken
  \/ ReduceSearchQuery \/ ReduceEmpty \/ ReduceExpression \/ ReducePrimary
  \/ ReduceTerm \/ ReduceFieldValue \/ ReduceFieldName \/ ReduceFieldContent
  \/ AcceptQuery \/ SyntaxError \/ ErrorRecovery
  \/ Stringify

Spec == Init /\ [][Next]_vars

\* the queries of every sequence of lexemes, with and without tokens, with
\* and without a syntax error or an illegal character
LiveQueries ==
  LexemeQueries \cup ErrorQueries \cup BlankQueries \cup IllegalCharacterQueries

LiveInit ==
  /\ \E q \in LiveQueries : Is(NewCall(yacc, q))
  /\ text = NoText
  /\ earlier = << >>
  /\ other = Idle

\* one call that goes on as long as it can take a step
LiveSpec == LiveInit /\ [][Next]_vars /\ WF_vars(Next)

(***************************************************************************)
(* The loop of main() (source lines 217-225): one call of                  *)
(* parse_search_query after the other, each with a fresh lexer and a fresh *)
(* parser, while another thread makes a call of its own.                   *)
(***************************************************************************)

MaxCalls == 3

\* queries that between them take every step of the lexer and the parser
SessionQueries ==
  {<<"(", "a", " ", "O", "R", " ", QUOTE, "c", " ", "d", QUOTE, ")", " ",
     "A", "N", "D", " ", "b">>,
   <<"K", ":", "v">>,
   <<"f", "i", "e", "l", "d", ":">>,
   <<")", " ", ")">>,
   <<"a", " ", QUOTE, "b">>,
   << >>}

ConcurrentQueries ==
  {<<"K", ":", "v">>, <<"f", "i", "e", "l", "d", ":">>, <<"a", " ", QUOTE, "b">>}

\* a variant in which the stacks of the parser outlive the call
Restart_keep_stacks(parser, m, query) ==
  [NewCall(parser, query) EXCEPT !.statestack = m.statestack,
                                 !.symstack = m.symstack]

\* lex.lex(), yacc.yacc() and parser.parse(query, lexer=lexer) after the
\* call m: a new lexer with the query as its input, a new parser, and the
\* locals of parse() set anew; nothing of m is kept
Restart(parser, m, query) == NewCall(parser, query)

\* how the call in progress ended
Outcome ==
  IF status = "raised" THEN "lexical"
  ELSE IF \E i \in DOMAIN printed : printed[i].type # "illegal" THEN "syntax"
  ELSE "ok"

\* main() has nothing left to print for the call
Printed ==
  IF status = "returned" /\ result.type = "SearchQuery"
  THEN result.expression = None \/ text # NoText
  ELSE status # "running"

SessionInit ==
  /\ \E q \in SessionQueries : Is(NewCall(yacc, q))
  /\ text = NoText
  /\ earlier = << >>
  /\ other = Idle

\* for query in test_queries: the next call, after the call before it has
\* returned or raised
NextCall ==
  /\ Printed
  /\ Len(earlier) < MaxCalls - 1
  /\ \E q \in SessionQueries : Becomes(Restart(yacc, Cur, q))
  /\ text' = NoText
  /\ earlier' = Append(earlier, Outcome)
  /\ UNCHANGED other

\* another thread calls parse_search_query
OtherCall ==
  /\ other = Idle
  /\ \E q \in ConcurrentQueries : other' = NewCall(yacc, q)
  /\ UNCHANGED <<lexdata, lexpos, lookahead, lookaheadstack, statestack,
                 symstack, errorcount, printed, status, result, text, earlier>>

\* the next iteration of the parse loop of the other thread's call
OtherStep ==
  /\ other # Idle
  /\ other.status = "running"
  /\ other' = StepOf(yacc, other).next
  /\ UNCHANGED <<lexdata, lexpos, lookahead, lookaheadstack, statestack,
                 symstack, errorcount, printed, status, result, text, earlier>>

SessionNext ==
  \/ LexQuotedString \/ LexAnd \/ LexOr \/ LexUnquotedString
  \/ LexLparen \/ LexRparen \/ LexColon \/ LexEnd \/ LexError
  \/ ShiftToken
  \/ ReduceSearchQuery \/ ReduceEmpty \/ ReduceExpression \/ ReducePrimary
  \/ ReduceTerm \/ ReduceFieldValue \/ ReduceFieldName \/ ReduceFieldContent
  \/ AcceptQuery \/ SyntaxError \/ ErrorRecovery
  \/ Stringify
  \/ NextCall \/ OtherCall \/ OtherStep

SessionSpec == SessionInit /\ [][SessionNext]_vars


(***************************************************************************)
(* Reading a query and a result: the token stream of a query, the shape    *)
(* of an operator chain, the nodes of a tree.                              *)
(***************************************************************************)

RECURSIVE TokensFrom(_, _)
\* the tokens lex.token() returns from position pos on, up to the end of
\* the input or a lexical error
TokensFrom(data, pos) ==
  IF Match(data, SkipIgnore(data, pos)).rule \in {"eof", "t_error"}
  THEN << >>
  ELSE <<RuleToken(Match(data, SkipIgnore(data, pos)).rule,
                   SubSeq(data, SkipIgnore(data, pos),
                          Match(data, SkipIgnore(data, pos)).last),
                   SkipIgnore(data, pos))>>
       \o TokensFrom(data, Match(data, SkipIgnore(data, pos)).last + 1)

\* the query holds no token: only ignored characters
HasNoToken(data) == Match(data, SkipIgnore(data, 1)).rule = "eof"

\* the call returned a SearchQuery
ReturnedQuery == status = "returned" /\ result.type = "SearchQuery"

\* the calls of p_error so far: the entries of the output that are not the
\* lexer's
SyntaxErrors == {i \in DOMAIN printed : printed[i].type # "illegal"}

RECURSIVE FieldsOf(_)
\* the Field nodes of a tree
FieldsOf(e) ==
  IF e.type = "Field" THEN {e}
  ELSE IF e.type \in {"And", "Or"} THEN FieldsOf(e.left) \cup FieldsOf(e.right)
  ELSE {}

RECURSIVE TermsOf(_)
\* the Term nodes of a tree
TermsOf(e) ==
  IF e.type = "Term" THEN {e}
  ELSE IF e.type \in {"And", "Or"} THEN TermsOf(e.left) \cup TermsOf(e.right)
  ELSE {}

RECURSIVE Split(_)
\* text.split(' ')
Split(s) ==
  IF \A i \in DOMAIN s : s[i] # " " THEN <<s>>
  ELSE CHOOSE r \in
         {<<SubSeq(s, 1, k - 1)>> \o Split(SubSeq(s, k + 1, Len(s))) :
            k \in {i \in DOMAIN s :
                     s[i] = " " /\ \A j \in 1..(i - 1) : s[j] # " "}} : TRUE

IsOperandWord(w) == w \notin {TXT_AND, TXT_OR}

RECURSIVE OpsOf(_)
\* the operators between the operands of the words W, which start with an
\* operand
OpsOf(W) ==
  IF Len(W) <= 1 THEN << >>
  ELSE IF W[2] = TXT_AND THEN <<"AND">> \o OpsOf(SubSeq(W, 3, Len(W)))
  ELSE IF W[2] = TXT_OR THEN <<"OR">> \o OpsOf(SubSeq(W, 3, Len(W)))
  ELSE <<"juxt">> \o OpsOf(Tail(W))

RECURSIVE Leading(_, _)
\* how many times c starts the word w
Leading(w, c) ==
  IF w # << >> /\ w[1] = c THEN 1 + Leading(Tail(w), c) ELSE 0

\* operand words read as a chain: the kinds of the operands, the operators
\* between them, and the parenthesized group (from 1 to n at depth 0 when
\* there is none)
ShapeOf(words, ops) ==
  [ kinds |-> [i \in DOMAIN words |->
                 IF \E j \in DOMAIN words[i] : words[i][j] = ":"
                 THEN "field" ELSE "term"],
    ops |-> ops,
    from |-> IF \E i \in DOMAIN words : Leading(words[i], "(") > 0
             THEN CHOOSE i \in DOMAIN words : Leading(words[i], "(") > 0
             ELSE 1,
    to |-> IF \E i \in DOMAIN words :
                words[i] # << >> /\ words[i][Len(words[i])] = ")"
           THEN CHOOSE i \in DOMAIN words :
                  words[i] # << >> /\ words[i][Len(words[i])] = ")"
           ELSE Len(words),
    depth |-> IF \E i \in DOMAIN words : Leading(words[i], "(") > 0
              THEN Leading(words[CHOOSE i \in DOMAIN words :
                                   Leading(words[i], "(") > 0], "(")
              ELSE 0 ]

\* the shape of the query q read as an operator chain
Shape(q) == ShapeOf(SelectSeq(Split(q), IsOperandWord), OpsOf(Split(q)))

\* the text of the chain of shape sh
ShapeText(sh) == ChainText(sh.kinds, sh.ops, sh.from, sh.to, sh.depth)

WellShaped(sh) ==
  /\ Len(sh.kinds) \in 1..Len(LowerCase)
  /\ Len(sh.ops) = Len(sh.kinds) - 1
  /\ sh.from <= sh.to

\* q is an operator chain: the text of its shape
IsChain(q) == WellShaped(Shape(q)) /\ ShapeText(Shape(q)) = q

\* q is an operator chain without parentheses
IsPlainChain(q) == IsChain(q) /\ Shape(q).depth = 0

\* the tree of operand i of a chain
OperandTree(kind, i) ==
  IF kind = "term" THEN Term(<<LowerCase[i]>>)
  ELSE Field(<<LowerCase[i], "k">>, <<"V", LowerCase[i]>>)

OperandTrees(kinds) == [i \in DOMAIN kinds |-> OperandTree(kinds[i], i)]

Node(op, l, r) == IF op = "OR" THEN Or(l, r) ELSE And(l, r)

RECURSIVE RightNested(_, _)
\* the operands ts joined by op, grouped to the right
RightNested(ts, op) ==
  IF Len(ts) = 1 THEN ts[1]
  ELSE Node(op, ts[1], RightNested(Tail(ts), op))

\* where a chain splits: at its first OR; without OR at its first AND;
\* without either after its first operand
SplitAt(ops) ==
  IF \E i \in DOMAIN ops : ops[i] = "OR"
  THEN CHOOSE i \in DOMAIN ops :
         ops[i] = "OR" /\ \A j \in 1..(i - 1) : ops[j] # "OR"
  ELSE IF \E i \in DOMAIN ops : ops[i] = "AND"
  THEN CHOOSE i \in DOMAIN ops :
         ops[i] = "AND" /\ \A j \in 1..(i - 1) : ops[j] # "AND"
  ELSE 1

RECURSIVE ChainTree(_, _)
\* The tree of the operands ts joined by ops when juxtaposition binds
\* tighter than AND, AND tighter than OR, and each of the three groups to
\* the right.
ChainTree(ts, ops) ==
  IF Len(ts) = 1 THEN ts[1]
  ELSE Node(ops[SplitAt(ops)],
            ChainTree(SubSeq(ts, 1, SplitAt(ops)),
                      SubSeq(ops, 1, SplitAt(ops) - 1)),
            ChainTree(SubSeq(ts, SplitAt(ops) + 1, Len(ts)),
                      SubSeq(ops, SplitAt(ops) + 1, Len(ops))))

\* the tree of a chain whose operands from..to are one parenthesized group
GroupedTree(ts, ops, from, to) ==
  ChainTree(SubSeq(ts, 1, from - 1)
              \o <<ChainTree(SubSeq(ts, from, to), SubSeq(ops, from, to - 1))>>
              \o SubSeq(ts, to + 1, Len(ts)),
            SubSeq(ops, 1, from - 1) \o SubSeq(ops, to, Len(ops)))

RECURSIVE NoOrUnderAnd(_)
\* no And node of the tree has an Or node as a child
NoOrUnderAnd(e) ==
  IF e.type = "And"
  THEN /\ e.left.type # "Or" /\ e.right.type # "Or"
       /\ NoOrUnderAnd(e.left) /\ NoOrUnderAnd(e.right)
  ELSE IF e.type = "Or"
  THEN NoOrUnderAnd(e.left) /\ NoOrUnderAnd(e.right)
  ELSE TRUE

\* every operator of ops is one of S
AllOps(ops, S) == \A i \in DOMAIN ops : ops[i] \in S

\* ops with operator a written b
Rewrite(ops, a, b) == [i \in DOMAIN ops |-> IF ops[i] = a THEN b ELSE ops[i]]

(***************************************************************************)
(* Properties                                                              *)
(***************************************************************************)

\* C1: round trip.  Once main() has printed stringify(result.expression),
\* parsing the printed text returns the result it was printed from.
C1_RoundTrip ==
  text # NoText => parse_search_query(text).result = result

C1_Witness ==
  /\ status = "returned"
  /\ lexdata = <<QUOTE, "a", ":", "a", QUOTE>>
  /\ result = SearchQuery(Term(<<"a", ":", "a">>))
  /\ text = <<"a", ":", "a">>
  /\ parse_search_query(text).result =
       SearchQuery(Field(<<"a">>, <<"a">>))

\* C2: a syntax error aborts the parse.  A call in which p_error was
\* called does not return a SearchQuery.
C2_SyntaxErrorAborts ==
  (status = "returned" /\ SyntaxErrors # {}) => result.type # "SearchQuery"

C2_Witness ==
  /\ status = "returned"
  /\ lexdata = <<":", "v", "a", "l", "u", "e">>
  /\ SyntaxErrors # {}
  /\ result = SearchQuery(Term(<<"v", "a", "l", "u", "e">>))

\* C3: SearchQuery(expression=None) is returned for a query without tokens,
\* and for no other query.
C3_NoneOnlyForBlank ==
  /\ (status # "running" /\ HasNoToken(lexdata)) => result = SearchQuery(None)
  /\ (status = "returned" /\ result = SearchQuery(None)) => HasNoToken(lexdata)

C3_Witness ==
  /\ status = "returned"
  /\ lexdata = <<"(", ")">>
  /\ SyntaxErrors # {}
  /\ result = SearchQuery(None)

\* C4: AND, explicit or implicit, binds tighter than OR.  A chain without
\* parentheses parses without error to a tree in which no And has an Or
\* below it; with three operands, x AND y OR z and x y OR z give
\* Or(And(x,y), z), and x OR y AND z and x OR y z give Or(x, And(y,z)).
C4_AndBindsTighter ==
  (status # "running" /\ IsPlainChain(lexdata)) =>
    /\ ReturnedQuery
    /\ SyntaxErrors = {}
    /\ NoOrUnderAnd(result.expression)
    /\ \A sh \in {Shape(lexdata)} : \A ts \in {OperandTrees(sh.kinds)} :
         /\ (Len(ts) = 3 /\ sh.ops[1] # "OR" /\ sh.ops[2] = "OR") =>
              result.expression = Or(And(ts[1], ts[2]), ts[3])
         /\ (Len(ts) = 3 /\ sh.ops[1] = "OR" /\ sh.ops[2] # "OR") =>
              result.expression = Or(ts[1], And(ts[2], ts[3]))

C4_Witness ==
  /\ status = "returned"
  /\ lexdata = <<"a", " ", "O", "R", " ", "b", " ", "A", "N", "D", " ", "c">>
  /\ result.expression =
       Or(Term(<<"a">>), And(Term(<<"b">>), Term(<<"c">>)))

\* C5 (as stated): the operands of a chain joined by AND and juxtaposition,
\* one precedence level, are grouped to the right.
C5_OneAndLevel ==
  (ReturnedQuery /\ IsPlainChain(lexdata)
     /\ AllOps(Shape(lexdata).ops, {"AND", "juxt"})) =>
    result.expression = RightNested(OperandTrees(Shape(lexdata).kinds), "AND")

\* C5 (amended): a chain of one and the same operator, explicit AND, OR or
\* juxtaposition, is grouped to the right; in a mixed chain juxtaposition
\* binds tighter than AND and AND tighter than OR, each grouped to the
\* right.
C5_RightGrouped ==
  (status # "running" /\ IsPlainChain(lexdata)) =>
    \A sh \in {Shape(lexdata)} : \A ts \in {OperandTrees(sh.kinds)} :
      /\ ReturnedQuery
      /\ \A op \in Operators :
           AllOps(sh.ops, {op}) => result.expression = RightNested(ts, op)
      /\ result.expression = ChainTree(ts, sh.ops)

C5_Witness ==
  /\ status = "returned"
  /\ lexdata = <<"a", " ", "b", " ", "c", " ", "d">>
  /\ result.expression =
       And(Term(<<"a">>),
           And(Term(<<"b">>), And(Term(<<"c">>), Term(<<"d">>))))

\* C6 (as stated): writing AND for any one juxtaposition of a chain gives a
\* query that parses to the same tree.
C6_AnyJuxtaposition ==
  (ReturnedQuery /\ IsChain(lexdata)) =>
    \A sh \in {Shape(lexdata)} :
      \A i \in {j \in DOMAIN sh.ops : sh.ops[j] = "juxt"} :
        parse_search_query(
          ShapeText([sh EXCEPT !.ops = [sh.ops EXCEPT ![i] = "AND"]])).result
        = result

\* C6 (amended): in a chain without explicit AND, writing AND for every
\* juxtaposition gives a query that parses to the same tree, and in a chain
\* without juxtaposition so does leaving every AND out; a b and a AND b
\* both parse to And(a, b).
C6_EveryJuxtaposition ==
  (status # "running" /\ IsChain(lexdata)) =>
    \A sh \in {Shape(lexdata)} :
      /\ AllOps(sh.ops, {"juxt", "OR"}) =>
           parse_search_query(
             ShapeText([sh EXCEPT !.ops = Rewrite(sh.ops, "juxt", "AND")])
           ).result = result
      /\ AllOps(sh.ops, {"AND", "OR"}) =>
           parse_search_query(
             ShapeText([sh EXCEPT !.ops = Rewrite(sh.ops, "AND", "juxt")])
           ).result = result
      /\ (Len(sh.kinds) = 2 /\ sh.depth = 0 /\ sh.ops[1] # "OR") =>
           result = SearchQuery(And(OperandTree(sh.kinds[1], 1),
                                    OperandTree(sh.kinds[2], 2)))

C6_Witness ==
  /\ status = "returned"
  /\ lexdata = <<"a", " ", "b", " ", "c">>
  /\ result = parse_search_query(
       <<"a", " ", "A", "N", "D", " ", "b", " ", "A", "N", "D", " ", "c">>
     ).result
  /\ result.expression.type = "And"

\* C7: a parenthesized group is one operand and the parentheses add no
\* node.  A chain with the operands from..to in parentheses, nested to any
\* depth, parses to the tree of the chain with the tree of the group as one
\* operand; parentheses around the whole query change nothing.
C7_Parentheses ==
  (status # "running" /\ IsChain(lexdata) /\ Shape(lexdata).depth > 0) =>
    \A sh \in {Shape(lexdata)} :
      /\ ReturnedQuery
      /\ SyntaxErrors = {}
      /\ result.expression =
           GroupedTree(OperandTrees(sh.kinds), sh.ops, sh.from, sh.to)
      /\ (sh.from = 1 /\ sh.to = Len(sh.kinds)) =>
           result = parse_search_query(ShapeText([sh EXCEPT !.depth = 0])).result

C7_Witness ==
  /\ status = "returned"
  /\ lexdata = <<"(", "a", " ", "O", "R", " ", "b", ")", " ",
                 "A", "N", "D", " ", "c">>
  /\ result.expression =
       And(Or(Term(<<"a">>), Term(<<"b">>)), Term(<<"c">>))
  /\ result # parse_search_query(
       <<"a", " ", "O", "R", " ", "b", " ", "A", "N", "D", " ", "c">>).result

\* C8: every Field of a returned tree has a non-empty key, the lower-cased
\* text of a word token that a colon follows, and as its value the value of
\* the word or quoted-string token after that colon, unchanged; every Term
\* has the value of a word or quoted-string token, unchanged.  The operand
\* Ak:Va parses to Field(key="ak", value="Va").
C8_FieldKeyValue ==
  ReturnedQuery =>
    \A toks \in {TokensFrom(lexdata, 1)} :
      /\ \A f \in FieldsOf(result.expression) :
           /\ f.key # << >>
           /\ \E i \in 1..(Len(toks) - 2) :
                /\ toks[i].type = "UNQUOTED_STRING"
                /\ toks[i + 1].type = "COLON"
                /\ toks[i + 2].type \in {"UNQUOTED_STRING", "QUOTED_STRING"}
                /\ f.key = Lower(toks[i].value)
                /\ f.value = toks[i + 2].value
      /\ \A t \in TermsOf(result.expression) :
           \E i \in 1..Len(toks) :
             /\ toks[i].type \in {"UNQUOTED_STRING", "QUOTED_STRING"}
             /\ t.value = toks[i].value
      /\ lexdata = OperandText("field", 1) =>
           result.expression = Field(<<"a", "k">>, <<"V", "a">>)

C8_Witness ==
  /\ status = "returned"
  /\ lexdata = <<"A", "k", ":", "V", "a">>
  /\ result = SearchQuery(Field(<<"a", "k">>, <<"V", "a">>))

RECURSIVE DecodeQuoted(_)
\* the single-pass decoder: from left to right, backslash-quote gives a
\* quote, backslash-backslash gives a backslash, any other character itself
DecodeQuoted(body) ==
  IF body = << >> THEN << >>
  ELSE IF Len(body) >= 2 /\ body[1] = BACKSLASH /\ body[2] = QUOTE
  THEN <<QUOTE>> \o DecodeQuoted(SubSeq(body, 3, Len(body)))
  ELSE IF Len(body) >= 2 /\ body[1] = BACKSLASH /\ body[2] = BACKSLASH
  THEN <<BACKSLASH>> \o DecodeQuoted(SubSeq(body, 3, Len(body)))
  ELSE <<body[1]>> \o DecodeQuoted(Tail(body))

\* the text of the query that the lookahead token was read from
LookaheadText == SubSeq(lexdata, lookahead.lexpos, lexpos - 1)

\* C9: the value of a quoted-string token is the single-pass decoding of
\* the text between its two delimiters.
C9_QuotedDecoding ==
  lookahead.type = "QUOTED_STRING" =>
    /\ Len(LookaheadText) >= 2
    /\ LookaheadText[1] = QUOTE
    /\ LookaheadText[Len(LookaheadText)] = QUOTE
    /\ lookahead.value =
         DecodeQuoted(SubSeq(LookaheadText, 2, Len(LookaheadText) - 1))

C9_Witness ==
  /\ lookahead.type = "QUOTED_STRING"
  /\ LookaheadText = <<QUOTE, BACKSLASH, QUOTE, BACKSLASH, BACKSLASH, QUOTE>>
  /\ lookahead.value = <<QUOTE, BACKSLASH>>

\* the characters that end an unquoted run: white space, the double quote,
\* the parentheses and the colon
RunBreak == {" ", "\t", "\n", "\r", "\f", QUOTE, "(", ")", ":"}

RECURSIVE RunAt(_, _)
\* the unquoted run that starts at pos, up to the next breaking character
RunAt(data, pos) ==
  IF pos <= Len(data) /\ data[pos] \notin RunBreak
  THEN <<data[pos]>> \o RunAt(data, pos + 1)
  ELSE << >>

\* no unquoted run goes on from before pos
StartsRun(data, pos) == pos = 1 \/ data[pos - 1] \in RunBreak

\* C10: a token is an AND/OR keyword exactly when it is read from a
\* maximal unquoted run that is the text AND or OR, whatever follows the
\* run; the queries AND:v and OR:v are a keyword, a colon and a word, and
\* return a tree without a Field.
C10_Keywords ==
  /\ lookahead.type \in tokens =>
       /\ lookahead.type \in {"AND", "OR"} <=>
            /\ StartsRun(lexdata, lookahead.lexpos)
            /\ RunAt(lexdata, lookahead.lexpos) \in {TXT_AND, TXT_OR}
       /\ lookahead.type = "AND" => lookahead.value = TXT_AND
       /\ lookahead.type = "OR" => lookahead.value = TXT_OR
  /\ \A kw \in {TXT_AND, TXT_OR} :
       lexdata = kw \o <<":", "v">> =>
         /\ [i \in 1..3 |-> TokensFrom(lexdata, 1)[i].type]
              = <<IF kw = TXT_AND THEN "AND" ELSE "OR", "COLON",
                  "UNQUOTED_STRING">>
         /\ status # "running" =>
              ReturnedQuery /\ FieldsOf(result.expression) = {}

C10_Witness ==
  /\ lookahead.type = "AND"
  /\ lexpos <= Len(lexdata)
  /\ lexdata[lexpos] = ":"

RECURSIVE LexemesFrom(_, _)
\* the texts that the tokens of TokensFrom(data, pos) are read from
LexemesFrom(data, pos) ==
  IF Match(data, SkipIgnore(data, pos)).rule \in {"eof", "t_error"}
  THEN << >>
  ELSE <<SubSeq(data, SkipIgnore(data, pos),
                Match(data, SkipIgnore(data, pos)).last)>>
       \o LexemesFrom(data, Match(data, SkipIgnore(data, pos)).last + 1)

RECURSIVE ScanEnd(_, _)
\* how the scan from pos on ends: "eof" or "t_error"
ScanEnd(data, pos) ==
  IF Match(data, SkipIgnore(data, pos)).rule \in {"eof", "t_error"}
  THEN Match(data, SkipIgnore(data, pos)).rule
  ELSE ScanEnd(data, Match(data, SkipIgnore(data, pos)).last + 1)

\* the type and the value of each token, without its position
TypesAndValues(toks) == [i \in DOMAIN toks |-> Sym(toks[i].type, toks[i].value)]

\* the white space the claim names
WhiteSpace == {" ", "\t", "\n", "\r"}

NotWhiteSpace(c) == c \notin WhiteSpace

\* the query with every white-space character taken out
Squeeze(data) == SelectSeq(data, NotWhiteSpace)

\* C11: the result depends on the token sequence only.  A query that
\* tokenizes ends as the query does that spells the same lexemes with one
\* space between them, which has the same tokens; and a key, a colon and a
\* value with any white space before, between and after them give the Field
\* of the key and the value.
C11_WhitespaceImmaterial ==
  status # "running" =>
    /\ ScanEnd(lexdata, 1) = "eof" =>
         \A canon \in {JoinWith(<<" ">>, LexemesFrom(lexdata, 1))} :
           lexdata # canon =>
             /\ TypesAndValues(TokensFrom(canon, 1))
                  = TypesAndValues(TokensFrom(lexdata, 1))
             /\ \A r \in {parse_search_query(canon)} :
                  r.status = status /\ r.result = result
    /\ Squeeze(lexdata) = <<"A", "k", ":", "V", "a">> =>
         result = SearchQuery(Field(<<"a", "k">>, <<"V", "a">>))
    /\ Squeeze(lexdata) = <<"A", "k", ":", QUOTE, "V", "(", "a", QUOTE>> =>
         result = SearchQuery(Field(<<"a", "k">>, <<"V", "(", "a">>))

C11_Witness ==
  /\ status = "returned"
  /\ lexdata = <<"A", "k", "\t", " ", ":", "\r", "\n", "V", "a">>
  /\ result = SearchQuery(Field(<<"a", "k">>, <<"V", "a">>))
  /\ result = parse_search_query(<<"A", "k", ":", "V", "a">>).result

RECURSIVE QuoteOpen(_, _, _)
\* reading data from pos on, inside a quoted string or not: is a quoted
\* string open at the end?  Outside, a double quote opens one; inside, a
\* backslash escapes the next character and an unescaped double quote
\* closes.
QuoteOpen(data, pos, inside) ==
  IF pos > Len(data) THEN inside
  ELSE IF ~inside THEN QuoteOpen(data, pos + 1, data[pos] = QUOTE)
  ELSE IF data[pos] = BACKSLASH
  THEN (IF pos + 1 > Len(data) THEN TRUE ELSE QuoteOpen(data, pos + 2, TRUE))
  ELSE QuoteOpen(data, pos + 1, data[pos] # QUOTE)

\* some opening double quote of the query has no closing one
Unterminated(data) == QuoteOpen(data, 1, FALSE)

\* the call raised LexError
LexicalError == status = "raised" /\ result.type = "LexError"

\* C12: a query with an unterminated quoted string ends in a lexical
\* error, a lexical error ends the call without a SearchQuery and with the
\* scan position on the offending character, and no other query ends in a
\* lexical error.
C12_OnlyUnterminatedQuote ==
  /\ (status # "running" /\ Unterminated(lexdata)) => LexicalError
  /\ status = "raised" =>
       /\ LexicalError
       /\ lexpos \in DOMAIN lexdata
       /\ Top(printed) = Tok("illegal", <<lexdata[lexpos]>>, lexpos)
  /\ LexicalError => Unterminated(lexdata)

C12_Witness ==
  /\ LexicalError
  /\ lexdata = <<"a", "\f", "b">>
  /\ lexpos = 2
  /\ ~Unterminated(lexdata)

RECURSIVE IsTree(_)
\* e is a Term or a Field, or an And or an Or of two trees
IsTree(e) ==
  \/ e.type \in {"Term", "Field"}
  \/ /\ e.type \in {"And", "Or"}
     /\ IsTree(e.left)
     /\ IsTree(e.right)

\* a value as the claim has it printed: in double quotes if and only if it
\* holds a space
Quoted(value) ==
  IF \E i \in DOMAIN value : value[i] = " "
  THEN Concat(<< <<QUOTE>>, value, <<QUOTE>> >>)
  ELSE value

RECURSIVE Rendered(_)
\* the text the claim gives for a tree
Rendered(e) ==
  CASE e.type = "Term" -> Quoted(e.value)
    [] e.type = "Field" -> Concat(<<e.key, <<":">>, Quoted(e.value)>>)
    [] e.type = "And" ->
         Concat(<< <<"(">>, Rendered(e.left), <<" ", "A", "N", "D", " ">>,
                   Rendered(e.right), <<")">> >>)
    [] e.type = "Or" ->
         Concat(<< <<"(">>, Rendered(e.left), <<" ", "O", "R", " ">>,
                   Rendered(e.right), <<")">> >>)

\* C13: stringify is defined on every tree that is returned and prints the
\* text of the claim.  Every returned expression other than None is a tree
\* of Term, Field, And and Or nodes; what main() prints for it is its
\* rendering; a b, a AND b, (a AND b) and ((a b)) all print as (a AND b).
C13_StringifyCanonical ==
  (ReturnedQuery /\ result.expression # None) =>
    /\ IsTree(result.expression)
    /\ stringify(result.expression) = Rendered(result.expression)
    /\ text # NoText => text = Rendered(result.expression)
    /\ (text # NoText
          /\ lexdata \in {<<"a", " ", "b">>,
                          <<"a", " ", "A", "N", "D", " ", "b">>,
                          <<"(", "a", " ", "A", "N", "D", " ", "b", ")">>,
                          <<"(", "(", "a", " ", "b", ")", ")">>})
         => text = <<"(", "a", " ", "A", "N", "D", " ", "b", ")">>

C13_Witness ==
  /\ lexdata = <<"k", ":", QUOTE, "a", " ", "a", QUOTE>>
  /\ result = SearchQuery(Field(<<"k">>, <<"a", " ", "a">>))
  /\ text = <<"k", ":", QUOTE, "a", " ", "a", QUOTE>>

RECURSIVE WellFormed(_)
\* e is a Term with a value, a Field with a key that is not empty and a
\* value, or an And or an Or with exactly a left and a right child, both
\* well formed
WellFormed(e) ==
  \/ e.type = "Term" /\ DOMAIN e = {"type", "value"}
  \/ e.type = "Field" /\ DOMAIN e = {"type", "key", "value"} /\ e.key # << >>
  \/ /\ e.type \in {"And", "Or"}
     /\ DOMAIN e = {"type", "left", "right"}
     /\ WellFormed(e.left)
     /\ WellFormed(e.right)

\* C15: the expression of every SearchQuery that is returned, with or
\* without a call of p_error before, is None or a well-formed tree; once
\* the parser has resumed after a syntax error, the values on its stack
\* that stand for an expression are well-formed trees too.
C15_WellFormedTrees ==
  /\ ReturnedQuery =>
       result.expression = None \/ WellFormed(result.expression)
  /\ \A i \in DOMAIN symstack :
       symstack[i].type \in {"expression", "primary", "term", "field_value"} =>
         WellFormed(symstack[i].value)

C15_Witness ==
  /\ ReturnedQuery
  /\ SyntaxErrors # {}
  /\ lexdata = <<")", " ", "b", " ", "c">>
  /\ result.expression = And(Term(<<"b">>), Term(<<"c">>))

\* how many operands the first run of juxtaposed operands has
FirstRun(ops) ==
  IF \E i \in DOMAIN ops : ops[i] # "juxt"
  THEN CHOOSE i \in DOMAIN ops :
         ops[i] # "juxt" /\ \A j \in 1..(i - 1) : ops[j] = "juxt"
  ELSE Len(ops) + 1

RECURSIVE RunTrees(_, _)
\* each maximal run of juxtaposed operands as one operand: the And of the
\* run, grouped to the right
RunTrees(ts, ops) ==
  IF ts = << >> THEN << >>
  ELSE <<RightNested(SubSeq(ts, 1, FirstRun(ops)), "AND")>>
       \o RunTrees(SubSeq(ts, FirstRun(ops) + 1, Len(ts)),
                   SubSeq(ops, FirstRun(ops) + 1, Len(ops)))

IsExplicit(op) == op # "juxt"

\* the tree of a chain whose runs are reduced first and then joined by the
\* explicit operators
RunsFirst(ts, ops) == ChainTree(RunTrees(ts, ops), SelectSeq(ops, IsExplicit))

\* C16: runs of juxtaposed operands are reduced before the explicit
\* operators next to them are applied.  A chain, with or without a
\* parenthesized group, parses to the tree of its explicit operators over
\* its runs, each run one operand; a b AND c gives And(And(a,b), c),
\* a AND b c gives And(a, And(b,c)), (a OR b) c d gives
\* And(Or(a,b), And(c,d)).
C16_RunsFirst ==
  /\ (status # "running" /\ IsChain(lexdata)) =>
       \A sh \in {Shape(lexdata)} : \A ts \in {OperandTrees(sh.kinds)} :
         /\ ReturnedQuery
         /\ result.expression =
              RunsFirst(SubSeq(ts, 1, sh.from - 1)
                          \o <<RunsFirst(SubSeq(ts, sh.from, sh.to),
                                         SubSeq(sh.ops, sh.from, sh.to - 1))>>
                          \o SubSeq(ts, sh.to + 1, Len(ts)),
                        SubSeq(sh.ops, 1, sh.from - 1)
                          \o SubSeq(sh.ops, sh.to, Len(sh.ops)))
  /\ (status # "running"
        /\ lexdata = <<"a", " ", "b", " ", "A", "N", "D", " ", "c">>) =>
       result = SearchQuery(
         And(And(Term(<<"a">>), Term(<<"b">>)), Term(<<"c">>)))
  /\ (status # "running"
        /\ lexdata = <<"a", " ", "A", "N", "D", " ", "b", " ", "c">>) =>
       result = SearchQuery(
         And(Term(<<"a">>), And(Term(<<"b">>), Term(<<"c">>))))
  /\ (status # "running"
        /\ lexdata = <<"(", "a", " ", "O", "R", " ", "b", ")", " ", "c",
                       " ", "d">>) =>
       result = SearchQuery(
         And(Or(Term(<<"a">>), Term(<<"b">>)),
             And(Term(<<"c">>), Term(<<"d">>))))

C16_Witness ==
  /\ status = "returned"
  /\ lexdata = <<"(", "a", " ", "O", "R", " ", "b", ")", " ", "c", " ", "d">>
  /\ result.expression =
       And(Or(Term(<<"a">>), Term(<<"b">>)), And(Term(<<"c">>), Term(<<"d">>)))

\* a step of the call in which the lexer returns a token
ReadsToken ==
  lookahead = NoTok /\ lookahead' # NoTok /\ lookahead'.type # "$end"

\* a step of the call in which the parser takes the token: it shifts it,
\* or drops it while it recovers from a syntax error
TakesToken == lookahead.type \in tokens /\ lookahead' # lookahead

\* what a step of the call does to the scan: the position never goes
\* back; a token starts at or after the position the scan had reached and
\* ends before the new one, which is farther; a lexical error ends the
\* call; and a token that the parser takes is gone, with the scan position
\* past it.
ScanStep ==
  /\ lexpos' >= lexpos
  /\ lexpos' <= Len(lexdata) + 1
  /\ lexdata' = lexdata
  /\ ReadsToken =>
       /\ lexpos <= lookahead'.lexpos
       /\ lookahead'.lexpos < lexpos'
  /\ (status = "running" /\ lexpos' = lexpos /\ printed' # printed
        /\ Top(printed').type = "illegal") => status' = "raised"
  /\ TakesToken =>
       /\ lookahead.lexpos < lexpos
       /\ lookahead'.type \in {"", "error"}
       /\ lexpos' = lexpos

\* C17: every call terminates.  The call returns or raises, after steps
\* that only move the scan forward and take every token once.
C17_Terminates ==
  /\ <>(status # "running")
  /\ [][ScanStep]_vars

C17_Witness ==
  /\ status = "returned"
  /\ lexdata = <<")", " ", ")">>
  /\ errorcount > 0
  /\ Cardinality(SyntaxErrors) = 1
  /\ lexpos = Len(lexdata) + 1

=============================================================================
